---- MODULE Spec2Model ----
(***************************************************************************)
(* State-machine model of convertingInC/Dwg_to_hybrid.cpp: the DWGConverter *)
(* class (tool location, DWG scan, listing, selection, the two external    *)
(* process stages) and main.  The filesystem, the drives, the user's input *)
(* and the two external processes are the environment.                     *)
(***************************************************************************)
EXTENDS Integers, Sequences, FiniteSets, TLC

VARIABLES
    dirs,                 \* filesystem: the directories that exist (paths)
    files,                \* filesystem: the regular files that exist (paths)
    readyDrives,          \* drives that are fixed/removable and answer GetDiskFreeSpaceA
    ioErrDirs,            \* directories whose enumeration raises fs::filesystem_error
    current_path,         \* the working directory, fs::current_path()
    pc,                   \* position of main/run
    oda_converter_path,   \* DWGConverter::oda_converter_path   (<<>> = empty path)
    python_renderer_path, \* DWGConverter::python_renderer_path
    output_dxf_dir,       \* DWGConverter::output_dxf_dir
    output_pdf_dir,       \* DWGConverter::output_pdf_dir
    all_dwg_files,        \* DWGConverter::all_dwg_files (std::vector<fs::path>)
    listing,              \* console: listing[k] = the path printed with number k
    choice,               \* run: int choice, as left by std::cin >> choice
    selected_file,        \* run: fs::path selected_file
    dxf_file,             \* run: fs::path dxf_file (output_dxf of stage 1)
    convert_exit_code,    \* convertDWGtoDXF: DWORD exit_code
    render_exit_code,     \* renderDXFtoPDF: DWORD exit_code
    stage1,               \* return value of convertDWGtoDXF: "none", "true", "false"
    stage2,               \* return value of renderDXFtoPDF:  "none", "true", "false"
    run_result,           \* return value of run:             "none", "true", "false"
    message,              \* console: the line main prints after run returns
    converter,            \* external converter process: "none", "running", "exited"
    renderer,             \* external renderer process:  "none", "running", "exited"
    procExit,             \* procExit[p]: exit code of an exited process
    launched,             \* sequence of the processes CreateProcessW started
    createdDirs,          \* the arguments of the fs::create_directories calls made
    walkedFor             \* the tools for which a full-drive walk was started

vars == <<dirs, files, readyDrives, ioErrDirs, current_path, pc, oda_converter_path,
          python_renderer_path, output_dxf_dir, output_pdf_dir, all_dwg_files,
          listing, choice, selected_file, dxf_file, convert_exit_code,
          render_exit_code, stage1, stage2, run_result, message, converter, renderer, procExit, launched,
          createdDirs, walkedFor>>

envVars  == <<readyDrives, ioErrDirs, current_path>>
toolVars == <<oda_converter_path, python_renderer_path>>
outVars  == <<output_dxf_dir, output_pdf_dir>>
procVars == <<converter, renderer, procExit, launched>>
exitCodes == <<convert_exit_code, render_exit_code>>

(***************************************************************************)
(* Bounds of the model.                                                    *)
(***************************************************************************)
\* exit codes an external process may return are 0..MaxExit
MaxExit == 1
\* the number typed at the prompt ranges over -ChoiceSlack .. N + ChoiceSlack
ChoiceSlack == 1

\* GetExitCodeProcess on a process that has not ended (winbase STILL_ACTIVE)
STILL_ACTIVE == 259

(***************************************************************************)
(* fs::path: a sequence of names, the first being the drive root; a name is *)
(* a stem and an extension (extension includes the dot).                   *)
(***************************************************************************)
Nm(s, e) == [stem |-> s, ext |-> e]
Dn(s)    == Nm(s, "")

NameStr(n) == n.stem \o n.ext

\* fs::path::parent_path: the root is its own parent
ParentPath(p) == IF Len(p) <= 1 THEN p ELSE SubSeq(p, 1, Len(p) - 1)
\* fs::path::has_parent_path
HasParentPath(p) == ParentPath(p) # <<>>
\* fs::path::filename (of a non-root path)
Filename(p) == p[Len(p)]
\* fs::path::stem, fs::path::extension
Stem(p)      == Filename(p).stem
Extension(p) == Filename(p).ext
\* operator/ (fs::path, name)
Slash(p, n) == Append(p, n)

\* fs::exists, fs::directory_entry::is_regular_file
Exists(p)        == p \in dirs \/ p \in files
IsRegularFile(p) == p \in files

(***************************************************************************)
(* The names the program looks for.                                        *)
(***************************************************************************)
ODAExe      == Nm("ODAFileConverter", ".exe")
RendererPy  == Nm("dxf_renderer", ".py")
TD_Db       == Nm("TD_Db", ".dll")
TG_Db       == Nm("TG_Db", ".dll")
TD_Root     == Nm("TD_Root", ".dll")

\* searchDWGInDrive: skip_folders
skip_folders == { Dn("Windows"), Dn("ProgramData"), Nm("$Recycle", ".Bin"),
                  Dn("System Volume Information"), Dn("Recovery") }

(***************************************************************************)
(* The filesystems the model is run on: a fixed directory skeleton on two  *)
(* drives and at most MaxFiles files taken from OptionalFiles.             *)
(***************************************************************************)
\* the number of regular files present when the program starts is <= MaxFiles
MaxFiles == 4

CRoot  == <<Dn("C:")>>
DRoot  == <<Dn("D:")>>
Proj   == <<Dn("C:"), Dn("proj")>>
Bin    == <<Dn("C:"), Dn("proj"), Dn("bin")>>
Win    == <<Dn("C:"), Dn("Windows")>>
WinSub == <<Dn("C:"), Dn("Windows"), Dn("sub")>>
Oda    == <<Dn("D:"), Dn("oda")>>
OldDxf == <<Dn("C:"), Dn("proj"), Dn("convertedDXF")>>

DriveLetters == <<CRoot, DRoot>>
BaseDirs     == {CRoot, DRoot, Proj, Bin, Win, WinSub, Oda}

OptionalFiles ==
    { Slash(CRoot, ODAExe), Slash(Proj, ODAExe), Slash(Bin, ODAExe), Slash(Oda, ODAExe),
      Slash(Oda, TD_Db), Slash(Oda, TG_Db), Slash(Oda, TD_Root),
      Slash(CRoot, RendererPy), Slash(Proj, RendererPy), Slash(Bin, RendererPy),
      Slash(Proj, Nm("z", ".dwg")), Slash(Bin, Nm("a", ".dwg")),
      Slash(WinSub, Nm("x", ".dwg")), Slash(Oda, Nm("a", ".dwg")),
      Slash(OldDxf, Nm("z", ".dxf")) }

\* byte order of the names that are enumerated or compared
StrRank(s) ==
    CASE s = "C:" -> 1
      [] s = "D:" -> 2
      [] s = "ODAFileConverter.exe" -> 3
      [] s = "TD_Db.dll" -> 4
      [] s = "TD_Root.dll" -> 5
      [] s = "TG_Db.dll" -> 6
      [] s = "Windows" -> 7
      [] s = "a.dwg" -> 8
      [] s = "a.dxf" -> 9
      [] s = "a.pdf" -> 10
      [] s = "bin" -> 11
      [] s = "convertedDXF" -> 12
      [] s = "convertedPDF" -> 13
      [] s = "dxf_renderer.py" -> 14
      [] s = "oda" -> 15
      [] s = "proj" -> 16
      [] s = "sub" -> 17
      [] s = "x.dwg" -> 18
      [] s = "x.dxf" -> 19
      [] s = "x.pdf" -> 20
      [] s = "z.dwg" -> 21
      [] s = "z.dxf" -> 22
      [] s = "z.pdf" -> 23

\* std::string / fs::path operator< on single names
NameLess(a, b) == StrRank(NameStr(a)) < StrRank(NameStr(b))

\* fs::path operator<: element-wise lexicographic, a proper prefix is smaller
RECURSIVE PathLess(_, _)
PathLess(p, q) ==
    IF q = <<>> THEN FALSE
    ELSE IF p = <<>> THEN TRUE
    ELSE IF Head(p) = Head(q) THEN PathLess(Tail(p), Tail(q))
    ELSE NameLess(Head(p), Head(q))

Init ==
    /\ files \in { fs \in SUBSET OptionalFiles : Cardinality(fs) <= MaxFiles }
    /\ dirs = BaseDirs \cup { ParentPath(f) : f \in files }
    /\ readyDrives \in { {CRoot}, {CRoot, DRoot} }
    /\ ioErrDirs \in { {}, {Win}, {Oda} }
    /\ current_path \in { Bin, Proj }
    /\ pc = "findODAConverter"
    /\ oda_converter_path = <<>>
    /\ python_renderer_path = <<>>
    /\ output_dxf_dir = <<>>
    /\ output_pdf_dir = <<>>
    /\ all_dwg_files = <<>>
    /\ listing = <<>>
    /\ choice = 0
    /\ selected_file = <<>>
    /\ dxf_file = <<>>
    /\ convert_exit_code = 0
    /\ render_exit_code = 0
    /\ stage1 = "none"
    /\ stage2 = "none"
    /\ run_result = "none"
    /\ message = ""
    /\ converter = "none"
    /\ renderer = "none"
    /\ procExit = [p \in {"converter", "renderer"} |-> 0]
    /\ launched = <<>>
    /\ createdDirs = {}
    /\ walkedFor = {}

(***************************************************************************)
(* getAvailableDrives (lines 30-51): the letters in order, kept when the   *)
(* drive is fixed or removable and answers the free-space query.           *)
(***************************************************************************)
getAvailableDrives == SelectSeq(DriveLetters, LAMBDA d : d \in readyDrives)

(***************************************************************************)
(* fs::recursive_directory_iterator(root, skip_permission_denied).         *)
(* The order of the entries of one directory is unspecified: ord picks     *)
(* ascending or descending name order.  Walk returns the entries the loop  *)
(* body sees, in order, up to the point where opening a directory throws.  *)
(***************************************************************************)
Children(d) == { e \in dirs \cup files : Len(e) = Len(d) + 1 /\ ParentPath(e) = d }

RECURSIVE SortNames(_, _)
SortNames(S, ord) ==
    IF S = {} THEN <<>>
    ELSE LET first == CHOOSE e \in S : \A o \in S \ {e} :
                          IF ord = "asc" THEN NameLess(Filename(e), Filename(o))
                                         ELSE NameLess(Filename(o), Filename(e))
         IN  <<first>> \o SortNames(S \ {first}, ord)

RECURSIVE WalkPending(_, _)
WalkPending(pending, ord) ==
    IF pending = <<>> THEN <<>>
    ELSE LET e == Head(pending) IN
         IF e \in dirs
         THEN IF e \in ioErrDirs
              THEN <<e>>      \* e is yielded; the increment into it throws
              ELSE <<e>> \o WalkPending(SortNames(Children(e), ord) \o Tail(pending), ord)
         ELSE <<e>> \o WalkPending(Tail(pending), ord)

Walk(root, ord) ==
    IF root \in ioErrDirs THEN <<>>
    ELSE WalkPending(SortNames(Children(root), ord), ord)

DirOrders == {"asc", "desc"}

\* the first path of cands that exists, <<>> when none does: the chain of
\* `if (fs::exists(...)) return true` tests
FirstExisting(cands) ==
    LET hits == SelectSeq(cands, Exists) IN IF hits = <<>> THEN <<>> ELSE Head(hits)

(***************************************************************************)
(* main (lines 411-421): what is printed once run has returned.            *)
(***************************************************************************)
MainMessage(res) ==
    IF res = "true" THEN "Conversion complete" ELSE "Conversion failed or cancelled"

Return(res) ==
    /\ run_result' = res
    /\ message' = MainMessage(res)
    /\ pc' = "exit"

(***************************************************************************)
(* findODAConverter (lines 54-123).                                        *)
(***************************************************************************)
\* variant: working directory first, then parent, then grandparent
ODANearbyCandidates_CwdFirst ==
    LET exe_dir    == current_path
        parent_dir == ParentPath(exe_dir)
    IN  <<Slash(exe_dir, ODAExe), Slash(parent_dir, ODAExe)>>
        \o (IF HasParentPath(parent_dir)
              THEN <<Slash(ParentPath(parent_dir), ODAExe)>> ELSE <<>>)

\* lines 57-88: the nearby candidates in the order they are tested
ODANearbyCandidates ==
    LET exe_dir    == current_path
        parent_dir == ParentPath(exe_dir)
    IN  (IF HasParentPath(parent_dir)
           THEN <<Slash(ParentPath(parent_dir), ODAExe)>> ELSE <<>>)
        \o <<Slash(parent_dir, ODAExe), Slash(exe_dir, ODAExe)>>

\* variant: only TD_Db.dll is accepted as the sibling library
HasDlls_OnlyTD_Db(parent) == Exists(Slash(parent, TD_Db))

\* lines 105-107: has_dlls
HasDlls(parent) ==
    \/ Exists(Slash(parent, TD_Db))
    \/ Exists(Slash(parent, TG_Db))
    \/ Exists(Slash(parent, TD_Root))

\* lines 101-113: the test applied to every entry of the walk
ODAWalkMatch(e) ==
    /\ IsRegularFile(e)
    /\ Filename(e) = ODAExe
    /\ HasDlls(ParentPath(e))

\* lines 97-113: the first entry of the walk that passes the test, <<>> if none
FirstODAMatch(walk) ==
    LET hits == SelectSeq(walk, ODAWalkMatch) IN IF hits = <<>> THEN <<>> ELSE Head(hits)

\* lines 93-120: the drives in order; an exception ends that drive's walk only
RECURSIVE SearchDrivesForODA(_, _)
SearchDrivesForODA(drives, ord) ==
    IF drives = <<>> THEN <<>>
    ELSE LET hit == FirstODAMatch(Walk(Head(drives), ord))
         IN  IF hit # <<>> THEN hit ELSE SearchDrivesForODA(Tail(drives), ord)

FindODAConverter ==
    /\ pc = "findODAConverter"
    /\ LET near == FirstExisting(ODANearbyCandidates) IN
       IF near # <<>>
       THEN /\ oda_converter_path' = near
            /\ pc' = "findPythonRenderer"
            /\ UNCHANGED <<walkedFor, run_result, message>>
       ELSE \E ord \in DirOrders :
            LET hit == SearchDrivesForODA(getAvailableDrives, ord) IN
            /\ walkedFor' = walkedFor \cup {"converter"}
            /\ oda_converter_path' = hit
            /\ IF hit # <<>>
               THEN pc' = "findPythonRenderer" /\ UNCHANGED <<run_result, message>>
               ELSE Return("false")                       \* run, lines 357-360
    /\ UNCHANGED <<dirs, files, envVars, python_renderer_path, outVars, all_dwg_files,
                   listing, choice, selected_file, dxf_file, exitCodes, stage1, stage2,
                   procVars, createdDirs>>

(***************************************************************************)
(* findPythonRenderer (lines 126-151).                                     *)
(***************************************************************************)
\* lines 129-146: the candidates in the order they are tested
RendererNearbyCandidates ==
    LET exe_dir == current_path
    IN  <<Slash(exe_dir, RendererPy), Slash(ParentPath(exe_dir), RendererPy)>>

FindPythonRenderer ==
    /\ pc = "findPythonRenderer"
    /\ LET near == FirstExisting(RendererNearbyCandidates) IN
       /\ python_renderer_path' = near
       /\ IF near # <<>>
          THEN pc' = "findAllDWGFiles" /\ UNCHANGED <<run_result, message>>
          ELSE Return("false")                            \* run, lines 363-367
    /\ UNCHANGED <<dirs, files, envVars, oda_converter_path, outVars, all_dwg_files,
                   listing, choice, selected_file, dxf_file, exitCodes, stage1, stage2,
                   procVars, createdDirs, walkedFor>>

(***************************************************************************)
(* searchDWGInDrive (lines 177-211) and findAllDWGFiles (lines 154-175).   *)
(***************************************************************************)
\* lines 190-198: should_skip, tested on the entry's own filename
ShouldSkip(e) == Filename(e) \in skip_folders

\* lines 186-205: `continue` passes over the entry; the iterator still descends
SearchDWGInDrive(drive, ord) ==
    SelectSeq(Walk(drive, ord),
              LAMBDA e : ~ShouldSkip(e) /\ IsRegularFile(e) /\ Extension(e) = ".dwg")

RECURSIVE CollectDWG(_, _)
CollectDWG(drives, ord) ==
    IF drives = <<>> THEN <<>>
    ELSE SearchDWGInDrive(Head(drives), ord) \o CollectDWG(Tail(drives), ord)

\* lines 169-172: std::sort by filename() only; the order of files with equal
\* filenames is unspecified, so every sorted permutation is a possible result
SortByFilename(seq) ==
    LET n == Len(seq)
        perms == { f \in [1..n -> 1..n] : \A i, j \in 1..n : i # j => f[i] # f[j] }
    IN  { [i \in 1..n |-> seq[f[i]]] : f \in
            { g \in perms : \A i, j \in 1..n :
                  i < j => ~NameLess(Filename(seq[g[j]]), Filename(seq[g[i]])) } }

FindAllDWGFiles ==
    /\ pc = "findAllDWGFiles"
    /\ \E ord \in DirOrders :
       \E sorted \in SortByFilename(CollectDWG(getAvailableDrives, ord)) :
          /\ all_dwg_files' = sorted
          /\ IF sorted = <<>>                             \* run, lines 372-374
             THEN Return("false")
             ELSE pc' = "displayDWGFiles" /\ UNCHANGED <<run_result, message>>
    /\ UNCHANGED <<dirs, files, envVars, toolVars, outVars, listing, choice,
                   selected_file, dxf_file, exitCodes, stage1, stage2, procVars,
                   createdDirs, walkedFor>>

(***************************************************************************)
(* displayDWGFiles (lines 213-236): std::map keyed by parent_path(), then  *)
(* one running number over the groups in key order.                        *)
(***************************************************************************)
RECURSIVE SortPaths(_)
SortPaths(S) ==
    IF S = {} THEN <<>>
    ELSE LET first == CHOOSE p \in S : \A q \in S \ {p} : PathLess(p, q)
         IN  <<first>> \o SortPaths(S \ {first})

RECURSIVE FlattenGroups(_, _)
FlattenGroups(keys, list) ==
    IF keys = <<>> THEN <<>>
    ELSE SelectSeq(list, LAMBDA f : ParentPath(f) = Head(keys))
         \o FlattenGroups(Tail(keys), list)

NumberedListing(list) ==
    FlattenGroups(SortPaths({ ParentPath(list[i]) : i \in DOMAIN list }), list)

DisplayDWGFiles ==
    /\ pc = "displayDWGFiles"
    /\ listing' = NumberedListing(all_dwg_files)
    /\ pc' = "select"
    /\ UNCHANGED <<dirs, files, envVars, toolVars, outVars, all_dwg_files, choice,
                   selected_file, dxf_file, exitCodes, stage1, stage2, run_result,
                   message, procVars, createdDirs, walkedFor>>

(***************************************************************************)
(* run, lines 379-390: read the choice, reject it or pick the file.        *)
(***************************************************************************)
\* what can be typed: a number, or text that does not parse as one
Inputs(n) ==
    { [parses |-> TRUE, val |-> v] : v \in (0 - ChoiceSlack)..(n + ChoiceSlack) }
    \cup { [parses |-> FALSE, val |-> 0] }

\* std::cin >> choice: a failed extraction stores 0
CinInt(inp) == IF inp.parses THEN inp.val ELSE 0

\* variant: the upper bound of the range test is missing
InvalidChoice_NoUpperBound(c, n) == c <= 0

\* line 384
InvalidChoice(c, n) == c <= 0 \/ c > n

\* line 390: std::vector::operator[] with a 0-based index; out of range is
\* undefined behaviour, modelled as any path
VectorAt(v, i0) ==
    IF i0 \in 0..(Len(v) - 1) THEN { v[i0 + 1] } ELSE files

Select ==
    /\ pc = "select"
    /\ \E inp \in Inputs(Len(all_dwg_files)) :
       LET c == CinInt(inp) IN
       /\ choice' = c
       /\ IF InvalidChoice(c, Len(all_dwg_files))
          THEN Return("false") /\ UNCHANGED selected_file
          ELSE /\ \E f \in VectorAt(all_dwg_files, c - 1) : selected_file' = f
               /\ pc' = "convertStart"
               /\ UNCHANGED <<run_result, message>>
    /\ UNCHANGED <<dirs, files, envVars, toolVars, outVars, all_dwg_files, listing,
                   dxf_file, exitCodes, stage1, stage2, procVars, createdDirs,
                   walkedFor>>

(***************************************************************************)
(* convertDWGtoDXF (lines 239-288) and its call in run (lines 396-400).    *)
(***************************************************************************)
\* line 244
DxfDirOf(dwg_file) == Slash(ParentPath(dwg_file), Dn("convertedDXF"))
\* line 278
DxfPathOf(dir, dwg_file) == Slash(dir, Nm(Stem(dwg_file), ".dxf"))

\* lines 280-287: the value convertDWGtoDXF returns once the wait is over
Stage1Success(code, dxf_exists) == dxf_exists

\* variant: run goes on to stage 2 whatever stage 1 returned
RunStopsAfterStage1_Never(ok) == FALSE

\* run, lines 398-400: a false return of stage 1 ends run
RunStopsAfterStage1(ok) == ~ok

\* lines 243-268: create the directory, start the converter
ConvertStart ==
    /\ pc = "convertStart"
    /\ output_dxf_dir' = DxfDirOf(selected_file)
    /\ dirs' = dirs \cup {DxfDirOf(selected_file)}
    /\ createdDirs' = createdDirs \cup {DxfDirOf(selected_file)}
    /\ \E started \in BOOLEAN :                            \* CreateProcessW
       IF started
       THEN /\ converter' = "running"
            /\ launched' = Append(launched, "converter")
            /\ pc' = "convertWait"
            /\ UNCHANGED <<stage1, run_result, message>>
       ELSE /\ stage1' = "false"
            /\ Return("false")
            /\ UNCHANGED <<converter, launched>>
    /\ UNCHANGED <<files, envVars, toolVars, output_pdf_dir, all_dwg_files, listing,
                   choice, selected_file, dxf_file, exitCodes, stage2, renderer,
                   procExit, walkedFor>>

\* lines 270-287: WaitForSingleObject returns because the converter ended or
\* because 120000 ms passed; GetExitCodeProcess; the existence test
ConvertFinish ==
    /\ pc = "convertWait"
    /\ converter \in {"running", "exited"}
    /\ LET code       == IF converter = "exited" THEN procExit["converter"]
                                                 ELSE STILL_ACTIVE
           output_dxf == DxfPathOf(output_dxf_dir, selected_file)
           ok         == Stage1Success(code, Exists(output_dxf))
       IN  /\ convert_exit_code' = code
           /\ dxf_file' = output_dxf
           /\ stage1' = IF ok THEN "true" ELSE "false"
           /\ IF RunStopsAfterStage1(ok)
              THEN Return("false")
              ELSE pc' = "renderStart" /\ UNCHANGED <<run_result, message>>
    /\ UNCHANGED <<dirs, files, envVars, toolVars, outVars, all_dwg_files, listing,
                   choice, selected_file, render_exit_code, stage2, procVars, createdDirs,
                   walkedFor>>

(***************************************************************************)
(* renderDXFtoPDF (lines 291-343) and its call in run (lines 402-407).     *)
(***************************************************************************)
\* line 295
PdfDirOf(dwg_file) == Slash(ParentPath(dwg_file), Dn("convertedPDF"))
\* line 298
PdfPathOf(dir, dwg_file) == Slash(dir, Nm(Stem(dwg_file), ".pdf"))

\* variant: the existence of the PDF alone decides, as in stage 1
Stage2Success_FileOnly(code, pdf_exists) == pdf_exists

\* lines 334-342
Stage2Success(code, pdf_exists) == code = 0 /\ pdf_exists

\* lines 294-324: create the directory, start the renderer
RenderStart ==
    /\ pc = "renderStart"
    /\ output_pdf_dir' = PdfDirOf(selected_file)
    /\ dirs' = dirs \cup {PdfDirOf(selected_file)}
    /\ createdDirs' = createdDirs \cup {PdfDirOf(selected_file)}
    /\ \E started \in BOOLEAN :                            \* CreateProcessW
       IF started
       THEN /\ renderer' = "running"
            /\ launched' = Append(launched, "renderer")
            /\ pc' = "renderWait"
            /\ UNCHANGED <<stage2, run_result, message>>
       ELSE /\ stage2' = "false"
            /\ Return("false")
            /\ UNCHANGED <<renderer, launched>>
    /\ UNCHANGED <<files, envVars, toolVars, output_dxf_dir, all_dwg_files, listing,
                   choice, selected_file, dxf_file, exitCodes, stage1, converter,
                   procExit, walkedFor>>

\* lines 326-342: the wait ends (exit or 300000 ms), exit code, success test
RenderFinish ==
    /\ pc = "renderWait"
    /\ renderer \in {"running", "exited"}
    /\ LET code       == IF renderer = "exited" THEN procExit["renderer"]
                                                ELSE STILL_ACTIVE
           output_pdf == PdfPathOf(output_pdf_dir, selected_file)
           ok         == Stage2Success(code, Exists(output_pdf))
       IN  /\ render_exit_code' = code
           /\ stage2' = IF ok THEN "true" ELSE "false"
           /\ Return(IF ok THEN "true" ELSE "false")
    /\ UNCHANGED <<dirs, files, envVars, toolVars, outVars, all_dwg_files, listing,
                   choice, selected_file, dxf_file, convert_exit_code, stage1, procVars,
                   createdDirs,
                   walkedFor>>

(***************************************************************************)
(* The external processes.  Each works on the paths of its command line    *)
(* (lines 248-252, 301-307) and may write its output file and end.  A      *)
(* process whose wait timed out is not terminated and goes on running.     *)
(***************************************************************************)
ConverterWrites ==
    /\ pc # "exit"
    /\ converter = "running"
    /\ DxfPathOf(output_dxf_dir, selected_file) \notin files
    /\ files' = files \cup {DxfPathOf(output_dxf_dir, selected_file)}
    /\ UNCHANGED <<dirs, envVars, pc, toolVars, outVars, all_dwg_files, listing,
                   choice, selected_file, dxf_file, exitCodes, stage1, stage2,
                   run_result, message, procVars, createdDirs, walkedFor>>

ConverterExits ==
    /\ pc # "exit"
    /\ converter = "running"
    /\ \E code \in 0..MaxExit :
          procExit' = [procExit EXCEPT !["converter"] = code]
    /\ converter' = "exited"
    /\ UNCHANGED <<dirs, files, envVars, pc, toolVars, outVars, all_dwg_files,
                   listing, choice, selected_file, dxf_file, exitCodes, stage1,
                   stage2, run_result, message, renderer, launched, createdDirs,
                   walkedFor>>

RendererWrites ==
    /\ pc # "exit"
    /\ renderer = "running"
    /\ PdfPathOf(output_pdf_dir, selected_file) \notin files
    /\ files' = files \cup {PdfPathOf(output_pdf_dir, selected_file)}
    /\ UNCHANGED <<dirs, envVars, pc, toolVars, outVars, all_dwg_files, listing,
                   choice, selected_file, dxf_file, exitCodes, stage1, stage2,
                   run_result, message, procVars, createdDirs, walkedFor>>

RendererExits ==
    /\ pc # "exit"
    /\ renderer = "running"
    /\ \E code \in 0..MaxExit :
          procExit' = [procExit EXCEPT !["renderer"] = code]
    /\ renderer' = "exited"
    /\ UNCHANGED <<dirs, files, envVars, pc, toolVars, outVars, all_dwg_files,
                   listing, choice, selected_file, dxf_file, exitCodes, stage1,
                   stage2, run_result, message, converter, launched, createdDirs,
                   walkedFor>>

Next ==
    \/ FindODAConverter
    \/ FindPythonRenderer
    \/ FindAllDWGFiles
    \/ DisplayDWGFiles
    \/ Select
    \/ ConvertStart
    \/ ConvertFinish
    \/ RenderStart
    \/ RenderFinish
    \/ ConverterWrites
    \/ ConverterExits
    \/ RendererWrites
    \/ RendererExits

Spec == Init /\ [][Next]_vars

(***************************************************************************)
(* Properties.                                                             *)
(***************************************************************************)
RendererLaunches == Len(SelectSeq(launched, LAMBDA x : x = "renderer"))
PdfDirsCreated   == { d \in createdDirs : Filename(d) = Dn("convertedPDF") }
EnumeratedDrives == { d \in readyDrives : \E i \in DOMAIN DriveLetters : DriveLetters[i] = d }

\* C1: once stage 1 (convertDWGtoDXF) has returned false, whatever the reason,
\* the renderer has not been and is never launched, no convertedPDF directory
\* has been created by the run, and run has returned false.
C1_Stage1FailureHaltsPipeline ==
    stage1 = "false" =>
        /\ RendererLaunches = 0
        /\ renderer = "none"
        /\ stage2 = "none"
        /\ PdfDirsCreated = {}
        /\ output_pdf_dir = <<>>
        /\ pc = "exit" /\ run_result = "false"

\* stage 1 failed after a timeout of the converter's wait
C1_Witness ==
    /\ stage1 = "false"
    /\ convert_exit_code = STILL_ACTIVE
    /\ converter = "running"
    /\ pc = "exit"

\* C2: stage 1 reports success only when the converter's exit code, as read
\* after the wait, is 0: a timeout (STILL_ACTIVE) or a non-zero exit makes
\* it fail, even when a file exists at the expected DXF path.
C2_Stage1FailsOnTimeoutOrNonZeroExit ==
    stage1 = "true" => convert_exit_code = 0

\* C3: the renderer is launched at most once; main prints 'Conversion
\* complete' exactly when stage 2 returned true; and stage 2 returned true
\* exactly when the renderer had exited with code 0 when the wait ended and
\* the expected PDF exists.
C3_Stage2SuccessPredicate ==
    /\ RendererLaunches <= 1
    /\ (message = "Conversion complete") <=> (stage2 = "true")
    /\ (run_result = "true") <=> (stage2 = "true")
    /\ stage2 # "none" =>
         ( stage2 = "true" <=>
             /\ renderer = "exited"
             /\ procExit["renderer"] = 0
             /\ render_exit_code = 0
             /\ PdfPathOf(PdfDirOf(selected_file), selected_file) \in files )

\* the run ended in Done
C3_Witness ==
    /\ stage2 = "true"
    /\ message = "Conversion complete"
    /\ RendererLaunches = 1

\* C4: no path of the candidate list has a directory named in the skip-list
\* among its ancestors.
C4_NoCandidateUnderSkippedDirectory ==
    \A i \in DOMAIN all_dwg_files :
        \A k \in 1..(Len(all_dwg_files[i]) - 1) :
            all_dwg_files[i][k] \notin skip_folders

\* C5: the file the pipeline processes is the file the listing showed with
\* the number that was chosen.
C5_SelectedIsTheListedFile ==
    selected_file # <<>> => selected_file = listing[choice]

\* C6: a recorded converter path exists and its directory holds at least one
\* of TD_Db.dll, TG_Db.dll, TD_Root.dll.
C6_ConverterHasSiblingLibrary ==
    oda_converter_path # <<>> =>
        /\ oda_converter_path \in dirs \cup files
        /\ \E dll \in {TD_Db, TG_Db, TD_Root} :
               Slash(ParentPath(oda_converter_path), dll) \in dirs \cup files

\* C7: once a choice has been read that is non-positive (0 and unparsable
\* input included) or greater than the number of candidates, run has returned
\* false, no directory was created, no process was launched, no file was
\* selected and the candidate list is the one that was listed.
C7_InvalidSelectionRejected ==
    ( /\ listing # <<>>
      /\ pc # "select"
      /\ (choice <= 0 \/ choice > Len(all_dwg_files)) ) =>
        /\ pc = "exit" /\ run_result = "false"
        /\ message = "Conversion failed or cancelled"
        /\ createdDirs = {}
        /\ launched = <<>>
        /\ converter = "none" /\ renderer = "none"
        /\ selected_file = <<>>
        /\ listing = NumberedListing(all_dwg_files)
        /\ Len(listing) = Len(all_dwg_files)

\* a number greater than the number of candidates was entered
C7_Witness ==
    /\ listing # <<>>
    /\ pc = "exit"
    /\ choice > Len(all_dwg_files)

\* a regular file named ODAFileConverter.exe with one of the three libraries
\* beside it
ValidConverter(e) ==
    /\ e \in files
    /\ Filename(e) = ODAExe
    /\ \E dll \in {TD_Db, TG_Db, TD_Root} : Slash(ParentPath(e), dll) \in dirs \cup files

\* the entries a walk of drive d meets under directory order ord
MetByWalk(d, ord) == LET w == Walk(d, ord) IN { w[i] : i \in DOMAIN w }

Gp  == ParentPath(ParentPath(current_path))
Par == ParentPath(current_path)
Cwd == current_path

ConverterSearched == pc # "findODAConverter"
RendererSearched  ==
    pc \notin {"findODAConverter", "findPythonRenderer"} /\ oda_converter_path # <<>>

\* C8 (as stated): each tool is reported missing only if no drive that was
\* enumerated holds it: no ODAFileConverter.exe with a sibling library (on
\* drives whose walk meets no filesystem error), no dxf_renderer.py.
C8_BothToolsSearchedOnAllDrives ==
    /\ (ConverterSearched /\ oda_converter_path = <<>> /\ ioErrDirs = {}) =>
          \A f \in files : ValidConverter(f) => <<f[1]>> \notin EnumeratedDrives
    /\ (RendererSearched /\ python_renderer_path = <<>>) =>
          \A f \in files : Filename(f) = RendererPy => <<f[1]>> \notin EnumeratedDrives

\* C8 (amended): the converter is reported missing only after the three nearby
\* directories held no ODAFileConverter.exe and the walk of every enumerated
\* drive ended (exhausted, or cut short by a filesystem error) without meeting
\* a converter with a sibling library (so one that every walk order meets is
\* found); the renderer is reported missing exactly when
\* dxf_renderer.py is in neither the working directory nor its parent, and no
\* drive is ever walked for it.
C8_ConverterWalksDrivesRendererDoesNot ==
    /\ (ConverterSearched /\ oda_converter_path = <<>>) =>
          /\ "converter" \in walkedFor
          /\ \A d \in {Gp, Par, Cwd} : ~Exists(Slash(d, ODAExe))
          /\ \E ord \in DirOrders : \A d \in EnumeratedDrives :
                 \A e \in MetByWalk(d, ord) : ~ValidConverter(e)
    /\ RendererSearched =>
          ( python_renderer_path = <<>> <=>
               ~Exists(Slash(Cwd, RendererPy)) /\ ~Exists(Slash(Par, RendererPy)) )
    /\ "renderer" \notin walkedFor

\* the converter was found by the full-drive walk, outside the nearby directories
C8_Witness ==
    /\ "converter" \in walkedFor
    /\ oda_converter_path = Slash(Oda, ODAExe)
    /\ RendererSearched

\* C9: the converter process and the renderer process never run at the same
\* time.
C9_StagesNeverOverlap ==
    ~(converter = "running" /\ renderer = "running")

\* C10 (as stated): a nearby hit is the one in the earliest directory of the
\* order working directory, parent, grandparent, and no drive is walked.
C10_NearbyOrderCwdParentGrandparent ==
    /\ (ConverterSearched /\ \E d \in {Cwd, Par, Gp} : Exists(Slash(d, ODAExe))) =>
          /\ oda_converter_path =
                IF Exists(Slash(Cwd, ODAExe)) THEN Slash(Cwd, ODAExe)
                ELSE IF Exists(Slash(Par, ODAExe)) THEN Slash(Par, ODAExe)
                ELSE Slash(Gp, ODAExe)
          /\ "converter" \notin walkedFor
    /\ (RendererSearched /\ \E d \in {Cwd, Par, Gp} : Exists(Slash(d, RendererPy))) =>
          /\ python_renderer_path =
                IF Exists(Slash(Cwd, RendererPy)) THEN Slash(Cwd, RendererPy)
                ELSE IF Exists(Slash(Par, RendererPy)) THEN Slash(Par, RendererPy)
                ELSE Slash(Gp, RendererPy)
          /\ "renderer" \notin walkedFor

\* C10 (amended): for the converter the nearby order is grandparent, parent,
\* working directory; for the renderer it is working directory, parent (the
\* grandparent is not looked at); a nearby hit is the one in the earliest
\* directory of that tool's order, and no drive is walked for it.
C10_NearbyOrderPerTool ==
    /\ (ConverterSearched /\ \E d \in {Gp, Par, Cwd} : Exists(Slash(d, ODAExe))) =>
          /\ oda_converter_path =
                IF Exists(Slash(Gp, ODAExe)) THEN Slash(Gp, ODAExe)
                ELSE IF Exists(Slash(Par, ODAExe)) THEN Slash(Par, ODAExe)
                ELSE Slash(Cwd, ODAExe)
          /\ "converter" \notin walkedFor
    /\ (RendererSearched /\ \E d \in {Cwd, Par} : Exists(Slash(d, RendererPy))) =>
          /\ python_renderer_path =
                IF Exists(Slash(Cwd, RendererPy)) THEN Slash(Cwd, RendererPy)
                ELSE Slash(Par, RendererPy)
          /\ "renderer" \notin walkedFor

\* the converter is in the working directory and in its grandparent, and the
\* grandparent's is the one recorded
C10_Witness ==
    /\ ConverterSearched
    /\ Gp # Cwd
    /\ Exists(Slash(Cwd, ODAExe))
    /\ Exists(Slash(Gp, ODAExe))
    /\ oda_converter_path = Slash(Gp, ODAExe)

====
